---- MODULE Spec2Model ----
(***************************************************************************)
(* Model of the text editor of src/main.cpp: the format strategies (TXT,   *)
(* HTML, BIN), the Subject/observer notifier, countParagraphs and the      *)
(* three handlers of main() (open, save, textChanged).                     *)
(*                                                                         *)
(* A QString is a sequence of one-character strings.  A file's content is  *)
(* the sequence of characters it holds (the alphabet is ASCII, where UTF-8 *)
(* is one byte per character).                                             *)
(*                                                                         *)
(* Spec is the editor session, SpecSubject the Subject used on its own,    *)
(* SpecText countParagraphs and the HTML saver and loader on every short   *)
(* text.                                                                   *)
(***************************************************************************)
EXTENDS Integers, Sequences, FiniteSets, TLC

VARIABLES
    txt,                \* QTextEdit *txt: the Document Text (toPlainText())
    currentPath,        \* QString currentPath
    currentFactory,     \* std::unique_ptr<IFileFactory> currentFactory
    lastParagraphCount, \* int lastParagraphCount
    disk,               \* content of every file, by path
    obs,                \* Subject::obs
    running,            \* app.exec() has not been quit
    event,              \* the event processed last (history)
    loads,              \* loader->load calls of the last event (history)
    writes,             \* saver->save calls of the last event (history)
    notes,              \* observer callbacks of the last event (history)
    regTime,            \* when each observer was registered (history)
    clock,              \* number of operations so far (history)
    input,              \* text under test
    saved,              \* what HTMLSaver wrote for input
    loaded,             \* what HTMLLoader read back
    count,              \* what countParagraphs returned for input
    stage               \* position of the text run

sessionVars == <<txt, currentPath, currentFactory, lastParagraphCount, disk,
                 running, loads, writes>>
subjectVars == <<obs, notes, regTime, clock>>
textVars == <<input, saved, loaded, count, stage>>
vars == <<sessionVars, subjectVars, textVars, event>>

-----------------------------------------------------------------------------
(* Bounds *)

\* longest text given to countParagraphs and to the HTML saver and loader
MaxLen == 5
\* longest sequence of calls made on a Subject
MaxCalls == 4
\* longest sequence of events of an editor session
MaxEvents == 4

-----------------------------------------------------------------------------
(* QString / QChar primitives *)

NL == "\n"
NLNL == <<NL, NL>>

\* QChar::isSpace
IsSpace(c) == c \in {" ", NL, "\t", "\r"}

UpperCase == <<"A","B","C","D","E","F","G","H","I","J","K","L","M",
               "N","O","P","Q","R","S","T","U","V","W","X","Y","Z">>
LowerCase == <<"a","b","c","d","e","f","g","h","i","j","k","l","m",
               "n","o","p","q","r","s","t","u","v","w","x","y","z">>

\* QChar::toLower
toLowerChar(c) ==
    IF \E i \in 1..Len(UpperCase) : UpperCase[i] = c
    THEN LowerCase[CHOOSE i \in 1..Len(UpperCase) : UpperCase[i] = c]
    ELSE c

\* QString::toLower
toLower(s) == [i \in 1..Len(s) |-> toLowerChar(s[i])]

\* A loop over s[lo..hi]: state st, body Op(st, element).  The range is
\* halved so that long texts do not nest deeply; the test on firstHalf has
\* TLC compute the state after s[lo..mid] before it goes on with the rest.
RECURSIVE Loop(_, _, _, _, _)
Loop(Op(_, _), st, s, lo, hi) ==
    IF lo > hi THEN st
    ELSE IF lo = hi THEN Op(st, s[lo])
    ELSE LET mid == (lo + hi) \div 2
             firstHalf == Loop(Op, st, s, lo, mid)
         IN IF firstHalf = firstHalf
            THEN Loop(Op, firstHalf, s, mid + 1, hi)
            ELSE firstHalf

\* QString::trimmed
trimmed(s) ==
    LET keep == {i \in 1..Len(s) : ~IsSpace(s[i])}
    IN IF keep = {} THEN <<>>
       ELSE SubSeq(s, CHOOSE i \in keep : \A j \in keep : i <= j,
                      CHOOSE i \in keep : \A j \in keep : i >= j)

\* QString::startsWith
startsWith(s, p) == Len(s) >= Len(p) /\ SubSeq(s, 1, Len(p)) = p

splitCharStep(st, c) ==
    IF c = NL THEN [parts |-> Append(st.parts, st.cur), cur |-> <<>>]
    ELSE [parts |-> st.parts, cur |-> Append(st.cur, c)]

\* QString::split('\n'), Qt::KeepEmptyParts: never an empty list
splitLines(s) ==
    LET st == Loop(splitCharStep, [parts |-> <<>>, cur |-> <<>>], s, 1, Len(s))
    IN Append(st.parts, st.cur)

\* nl: the character before was a newline not yet part of a separator
splitBlankStep(st, c) ==
    IF c = NL
    THEN (IF st.nl
          THEN [parts |-> IF st.cur = <<>> THEN st.parts
                          ELSE Append(st.parts, st.cur),
                cur |-> <<>>, nl |-> FALSE]
          ELSE [parts |-> st.parts, cur |-> st.cur, nl |-> TRUE])
    ELSE [parts |-> st.parts,
          cur |-> (IF st.nl THEN Append(st.cur, NL) ELSE st.cur) \o <<c>>,
          nl |-> FALSE]

\* QString::split("\n\n", Qt::SkipEmptyParts): left to right, not overlapping
splitBlank(s) ==
    LET st == Loop(splitBlankStep,
                   [parts |-> <<>>, cur |-> <<>>, nl |-> FALSE], s, 1, Len(s))
        last == IF st.nl THEN Append(st.cur, NL) ELSE st.cur
    IN IF last = <<>> THEN st.parts ELSE Append(st.parts, last)

escapeStep(out, c) ==
    out \o (CASE c = "<" -> <<"&","l","t",";">>
              [] c = ">" -> <<"&","g","t",";">>
              [] c = "&" -> <<"&","a","m","p",";">>
              [] c = "\"" -> <<"&","q","u","o","t",";">>
              [] OTHER -> <<c>>)

\* QString::toHtmlEscaped
toHtmlEscaped(s) == Loop(escapeStep, <<>>, s, 1, Len(s))

-----------------------------------------------------------------------------
(* countParagraphs, main.cpp 186-200 *)

\* the body of the loop over lines (lines 191-196)
countStep(st, ln) ==
    IF trimmed(ln) = <<>>
    THEN (IF st.cur # <<>>
          THEN [paras |-> Append(st.paras, st.cur), cur |-> <<>>]
          ELSE st)
    ELSE [paras |-> st.paras,
          cur |-> (IF st.cur # <<>> THEN Append(st.cur, NL) ELSE st.cur) \o ln]

\* mutant: a line is blank only when it is empty (the trimmed() is dropped)
countStepNoTrim(st, ln) ==
    IF ln = <<>>
    THEN (IF st.cur # <<>>
          THEN [paras |-> Append(st.paras, st.cur), cur |-> <<>>]
          ELSE st)
    ELSE [paras |-> st.paras,
          cur |-> (IF st.cur # <<>> THEN Append(st.cur, NL) ELSE st.cur) \o ln]

countParagraphsNoTrim(text) ==
    LET lines == splitLines(text)
        st == Loop(countStepNoTrim, [paras |-> <<>>, cur |-> <<>>],
                   lines, 1, Len(lines))
    IN Len(IF st.cur # <<>> THEN Append(st.paras, st.cur) ELSE st.paras)

countParagraphs(text) ==
    LET lines == splitLines(text)
        st == Loop(countStep, [paras |-> <<>>, cur |-> <<>>],
                   lines, 1, Len(lines))
    IN Len(IF st.cur # <<>> THEN Append(st.paras, st.cur) ELSE st.paras)

-----------------------------------------------------------------------------
(* htmlToPlain, main.cpp 65-95 *)

\* mutant: only br breaks the text, p and /p are dropped like any other tag
tagOutputBrOnly(tag) ==
    LET t == toLower(trimmed(tag))
    IN IF startsWith(t, <<"b","r">>) \/ startsWith(t, <<"b","r","/">>)
       THEN NLNL ELSE <<>>

\* what closing a tag appends to out (lines 76-78)
tagOutput(tag) ==
    LET t == toLower(trimmed(tag))
        a == IF startsWith(t, <<"b","r">>) \/ startsWith(t, <<"b","r","/">>)
             THEN NLNL ELSE <<>>
        b == IF startsWith(t, <<"p">>) \/ startsWith(t, <<"/","p">>)
             THEN NLNL ELSE <<>>
    IN a \o b

\* the body of the character loop (lines 71-85)
stripStep(st, c) ==
    IF c = "<" THEN [inTag |-> TRUE, tag |-> <<>>, out |-> st.out]
    ELSE IF st.inTag
         THEN (IF c = ">"
               THEN [inTag |-> FALSE, tag |-> st.tag,
                     out |-> st.out \o tagOutput(st.tag)]
               ELSE [inTag |-> TRUE, tag |-> Append(st.tag, c),
                     out |-> st.out])
    ELSE [inTag |-> FALSE, tag |-> st.tag, out |-> Append(st.out, c)]

\* the body of the blank-line collapse (lines 91-92)
collapseStep(st, ln) ==
    IF trimmed(ln) = <<>>
    THEN [emptyCount |-> st.emptyCount + 1,
          result |-> IF st.emptyCount + 1 <= 2 THEN Append(st.result, NL)
                     ELSE st.result]
    ELSE [emptyCount |-> 0, result |-> st.result \o ln \o <<NL>>]

htmlToPlain(html) ==
    LET scan == Loop(stripStep, [inTag |-> FALSE, tag |-> <<>>, out |-> <<>>],
                     html, 1, Len(html))
        lines == splitLines(scan.out)
        st == Loop(collapseStep, [emptyCount |-> 0, result |-> <<>>],
                   lines, 1, Len(lines))
    IN trimmed(st.result)

-----------------------------------------------------------------------------
(* What each saver writes and each loader returns, main.cpp 39-154 *)

\* the body of the paragraph loop (line 116)
paraStep(out, para) ==
    out \o <<"<","p",">">> \o toHtmlEscaped(para) \o <<"<","/","p",">",NL>>

\* HTMLSaver::save, the bytes written (lines 113-118)
HTMLSaverOutput(text) ==
    LET paras == splitBlank(text)
    IN Loop(paraStep, <<"<","h","t","m","l",">","<","b","o","d","y",">",NL>>,
            paras, 1, Len(paras))
       \o <<NL,"<","/","b","o","d","y",">","<","/","h","t","m","l",">",NL>>

\* saver->save(path, text) of the saver the factory creates
SaverOutput(factory, text) ==
    CASE factory = "HTML" -> HTMLSaverOutput(text)
      [] factory = "TXT" -> text
      [] factory = "BIN" -> text

\* loader->load(path) of the loader the factory creates; {} when open fails
LoaderResult(factory, content, ok) ==
    IF ~ok THEN <<>>
    ELSE CASE factory = "HTML" -> htmlToPlain(content)
           [] factory = "TXT" -> content
           [] factory = "BIN" -> content

-----------------------------------------------------------------------------
(* Subject, main.cpp 164-171 *)

NoObserver == "nullptr"

contains(list, o) == \E i \in 1..Len(list) : list[i] = o

\* mutant: the contains() test is dropped
SubjectAddAlways(list, o) == IF o # NoObserver THEN Append(list, o) ELSE list

\* Subject::add
SubjectAdd(list, o) ==
    IF o # NoObserver /\ ~contains(list, o) THEN Append(list, o) ELSE list

\* Subject::remove (QList::removeAll)
SubjectRemove(list, o) == SelectSeq(list, LAMBDA x : x # o)

\* Subject::notifyDeleted: the callbacks made, in order
notifyDeleted(list, n) ==
    [i \in 1..Len(list) |->
        [observer |-> list[i], call |-> "onParagraphsDeleted", arg |-> n]]

\* Subject::notifySaved: the callbacks made, in order
notifySaved(list, p) ==
    [i \in 1..Len(list) |->
        [observer |-> list[i], call |-> "onAutoSaved", arg |-> p]]

-----------------------------------------------------------------------------
(* The text functions applied to every text of at most MaxLen characters *)

Alphabet == {"a", " ", NL, "<", ">", "&"}
Texts == UNION {[1..n -> Alphabet] : n \in 0..MaxLen}

EmptyPath == [stem |-> "", suffix |-> <<>>]

SessionIdle ==
    /\ txt = <<>>
    /\ currentPath = EmptyPath
    /\ currentFactory = "none"
    /\ lastParagraphCount = 0
    /\ disk = <<>>
    /\ running = FALSE
    /\ loads = <<>>
    /\ writes = <<>>

SubjectIdle ==
    /\ obs = <<>>
    /\ notes = <<>>
    /\ regTime = <<>>
    /\ clock = 0

TextIdle ==
    /\ input = <<>>
    /\ saved = <<>>
    /\ loaded = <<>>
    /\ count = 0
    /\ stage = "idle"

InitText ==
    /\ SessionIdle
    /\ SubjectIdle
    /\ input \in Texts
    /\ saved = <<>>
    /\ loaded = <<>>
    /\ count = 0
    /\ stage = "input"
    /\ event = [kind |-> "none"]

\* lastParagraphCount = countParagraphs(text)
CountInput ==
    /\ stage = "input"
    /\ count' = countParagraphs(input)
    /\ stage' = "counted"
    /\ UNCHANGED <<input, saved, loaded, sessionVars, subjectVars, event>>

\* HTMLSaver::save(path, input), the write succeeding
SaveInput ==
    /\ stage = "counted"
    /\ saved' = SaverOutput("HTML", input)
    /\ stage' = "saved"
    /\ UNCHANGED <<input, loaded, count, sessionVars, subjectVars, event>>

\* HTMLLoader::load(path) of the file just written
LoadSaved ==
    /\ stage = "saved"
    /\ loaded' = LoaderResult("HTML", saved, TRUE)
    /\ stage' = "loaded"
    /\ UNCHANGED <<input, saved, count, sessionVars, subjectVars, event>>

NextText == CountInput \/ SaveInput \/ LoadSaved

SpecText == InitText /\ [][NextText]_vars

\* The number of maximal runs of non-blank lines of s, from the positions of
\* its characters: the line of position i is the number of newlines before it.
LineOf(s, i) == Cardinality({j \in 1..(i - 1) : s[j] = NL})
NonBlankLines(s) == {LineOf(s, i) : i \in {j \in 1..Len(s) : ~IsSpace(s[j])}}
Runs(s) == Cardinality({k \in NonBlankLines(s) : (k - 1) \notin NonBlankLines(s)})

\* C8: countParagraphs(text) is the number of maximal runs of consecutive
\* non-blank lines of text (a line is blank when empty after trimming); it is
\* 0 for an empty or all-blank text.
C8_CountIsRuns ==
    stage # "input" =>
        /\ count = Runs(input)
        /\ ((\A i \in 1..Len(input) : IsSpace(input[i])) => count = 0)

\* two runs with two blank lines between them, counted as 2
C8_Witness ==
    /\ stage = "counted"
    /\ input = <<"a", NL, NL, NL, "a">>
    /\ count = 2

\* C7: saving a text with the HTML saver and loading the file with the HTML
\* loader gives a text with the same number of paragraphs.
C7_RoundTripCount ==
    stage = "loaded" => countParagraphs(loaded) = countParagraphs(input)

\* a text with two paragraphs and a markup character that comes back changed
C7_Witness ==
    /\ stage = "loaded"
    /\ input = <<"<", NL, NL, "a">>
    /\ loaded # input
    /\ countParagraphs(loaded) = 2

-----------------------------------------------------------------------------
(* The Subject alone: add, remove and the two notifications *)

Observers == {"A", "B", "C"}
DeletedArgs == {1, 3}
SavedArgs == {"a.txt", "b.html"}

InitSubject ==
    /\ SessionIdle
    /\ TextIdle
    /\ obs = <<>>
    /\ notes = <<>>
    /\ regTime = [o \in Observers |-> 0]
    /\ clock = 0
    /\ event = [kind |-> "none", arg |-> NoObserver, before |-> <<>>]

\* subject.add(o); an observer not registered at the moment is registered now
Add(o) ==
    /\ clock < MaxCalls
    /\ obs' = SubjectAdd(obs, o)
    /\ clock' = clock + 1
    /\ regTime' = IF o \in Observers /\ regTime[o] = 0
                  THEN [regTime EXCEPT ![o] = clock + 1] ELSE regTime
    /\ notes' = <<>>
    /\ event' = [kind |-> "add", arg |-> o, before |-> obs]
    /\ UNCHANGED <<sessionVars, textVars>>

\* subject.remove(o)
Remove(o) ==
    /\ clock < MaxCalls
    /\ obs' = SubjectRemove(obs, o)
    /\ clock' = clock + 1
    /\ regTime' = IF o \in Observers
                  THEN [regTime EXCEPT ![o] = 0] ELSE regTime
    /\ notes' = <<>>
    /\ event' = [kind |-> "remove", arg |-> o, before |-> obs]
    /\ UNCHANGED <<sessionVars, textVars>>

\* subject.notifyDeleted(n)
NotifyDeleted(n) ==
    /\ clock < MaxCalls
    /\ notes' = notifyDeleted(obs, n)
    /\ clock' = clock + 1
    /\ event' = [kind |-> "notifyDeleted", arg |-> n, before |-> obs]
    /\ UNCHANGED <<obs, regTime, sessionVars, textVars>>

\* subject.notifySaved(p)
NotifySaved(p) ==
    /\ clock < MaxCalls
    /\ notes' = notifySaved(obs, p)
    /\ clock' = clock + 1
    /\ event' = [kind |-> "notifySaved", arg |-> p, before |-> obs]
    /\ UNCHANGED <<obs, regTime, sessionVars, textVars>>

NextSubject ==
    \/ \E o \in Observers \cup {NoObserver} : Add(o)
    \/ \E o \in Observers \cup {NoObserver} : Remove(o)
    \/ \E n \in DeletedArgs : NotifyDeleted(n)
    \/ \E p \in SavedArgs : NotifySaved(p)

SpecSubject == InitSubject /\ [][NextSubject]_vars

Registered == {o \in Observers : regTime[o] > 0}

\* C6: the subscriber list holds each registered observer once, in the order
\* of registration; adding a present observer and removing an absent one
\* change nothing; a notification calls every subscriber once, in list
\* order, with the argument given.
C6_SubscribersAndDelivery ==
    /\ \A i, j \in 1..Len(obs) : i < j => regTime[obs[i]] < regTime[obs[j]]
    /\ {obs[i] : i \in 1..Len(obs)} = Registered
    /\ (event.kind = "add" /\ contains(event.before, event.arg)
            => obs = event.before)
    /\ (event.kind = "remove" /\ ~contains(event.before, event.arg)
            => obs = event.before)
    /\ (event.kind \in {"notifyDeleted", "notifySaved"} =>
            /\ Len(notes) = Len(obs)
            /\ \A i \in 1..Len(obs) :
                  /\ notes[i].observer = obs[i]
                  /\ notes[i].arg = event.arg
                  /\ notes[i].call = (IF event.kind = "notifyDeleted"
                                      THEN "onParagraphsDeleted"
                                      ELSE "onAutoSaved"))

\* A then B subscribed, A subscribed again, notifyDeleted(3) calls A then B
C6_Witness ==
    /\ obs = <<"A", "B">>
    /\ clock = 4
    /\ event.kind = "notifyDeleted"
    /\ notes = << [observer |-> "A", call |-> "onParagraphsDeleted", arg |-> 3],
                  [observer |-> "B", call |-> "onParagraphsDeleted", arg |-> 3] >>

-----------------------------------------------------------------------------
(* The editor session: main(), main.cpp 202-289 *)

TxtPath == [stem |-> "a", suffix |-> <<"t","x","t">>]
HtmlPath == [stem |-> "b", suffix |-> <<"H","T","M","L">>]
BinPath == [stem |-> "c", suffix |-> <<"b","i","n">>]
HtmPath == [stem |-> "d", suffix |-> <<"h","t","m">>]
DatPath == [stem |-> "e", suffix |-> <<"d","a","t">>]
BarePath == [stem |-> "f", suffix |-> <<>>]
Paths == {TxtPath, HtmlPath, BinPath, HtmPath, DatPath, BarePath}

\* the files QFile::open(ReadOnly) and QFile::open(WriteOnly) succeed on
Readable == Paths \ {HtmPath}
Writable == Paths \ {BinPath}

\* the files on disk when the editor starts
InitialDisk ==
    [p \in Paths |->
        CASE p = TxtPath -> <<"a">>
          [] p = HtmlPath -> <<"<","P",">","a","<","b","r",">","<",">","&">>
          [] p = BinPath -> <<>>
          [] p = HtmPath -> <<"<","p",">","a","<","/","p",">">>
          [] p = DatPath -> <<"a", NL, " ", NL, "a">>
          [] p = BarePath -> <<" ", NL>>]

\* the texts the user's edits produce
EditTexts == { <<>>, <<"a">>, <<"a", NL, NL, "<">>, <<"a", NL, " ", NL, "a", NL, NL, "&">> }

MsgObs == "msgObs"

\* QFileInfo(path).suffix().toLower()
suffixLower(path) == toLower(path.suffix)

\* factoryForExtension (lines 232-237)
factoryForExtension(ext) ==
    IF ext = <<"t","x","t">> THEN "TXT"
    ELSE IF ext = <<"h","t","m","l">> \/ ext = <<"h","t","m">> THEN "HTML"
    ELSE IF ext = <<"b","i","n">> THEN "BIN"
    ELSE "TXT"

NoHandler == [ran |-> FALSE, last |-> 0, cur |-> 0, path |-> EmptyPath,
              factory |-> "none"]

\* the record of one saver->save(path, text) call and what it returned
SaveCall(factory, path, text) ==
    [path |-> path, saver |-> factory, text |-> text, ok |-> path \in Writable]

\* the disk after saver->save(path, text): a failed open leaves the file alone
DiskAfterSave(d, factory, path, text) ==
    IF path \in Writable
    THEN [d EXCEPT ![path] = SaverOutput(factory, text)] ELSE d

\* mutant: the currentPath.isEmpty() test of line 276 is dropped
textChangedNoPathTest(text, path, factory, last, d) ==
    LET curCount == countParagraphs(text)
        f == IF factory = "none" THEN factoryForExtension(suffixLower(path))
             ELSE factory
    IN IF curCount < last
       THEN [factory |-> factory, disk |-> d, writes |-> <<>>,
             notes |-> notifyDeleted(obs, last - curCount),
             last |-> curCount]
       ELSE IF curCount > last
       THEN [factory |-> f,
             disk |-> DiskAfterSave(d, f, path, text),
             writes |-> <<SaveCall(f, path, text)>>,
             notes |-> notifySaved(obs, path),
             last |-> curCount]
       ELSE [factory |-> factory, disk |-> d, writes |-> <<>>,
             notes |-> <<>>, last |-> curCount]

\* mutant: the number reported is the old count, not the difference
textChangedOldCount(text, path, factory, last, d) ==
    LET curCount == countParagraphs(text)
        f == IF factory = "none" THEN factoryForExtension(suffixLower(path))
             ELSE factory
    IN IF curCount < last
       THEN [factory |-> factory, disk |-> d, writes |-> <<>>,
             notes |-> notifyDeleted(obs, last),
             last |-> curCount]
       ELSE IF curCount > last /\ path # EmptyPath
       THEN [factory |-> f,
             disk |-> DiskAfterSave(d, f, path, text),
             writes |-> <<SaveCall(f, path, text)>>,
             notes |-> notifySaved(obs, path),
             last |-> curCount]
       ELSE [factory |-> factory, disk |-> d, writes |-> <<>>,
             notes |-> <<>>, last |-> curCount]

\* mutant: line 283 is dropped, the baseline is left as it was
textChangedStaleBaseline(text, path, factory, last, d) ==
    LET curCount == countParagraphs(text)
        f == IF factory = "none" THEN factoryForExtension(suffixLower(path))
             ELSE factory
    IN IF curCount < last
       THEN [factory |-> factory, disk |-> d, writes |-> <<>>,
             notes |-> notifyDeleted(obs, last - curCount),
             last |-> last]
       ELSE IF curCount > last /\ path # EmptyPath
       THEN [factory |-> f,
             disk |-> DiskAfterSave(d, f, path, text),
             writes |-> <<SaveCall(f, path, text)>>,
             notes |-> notifySaved(obs, path),
             last |-> last]
       ELSE [factory |-> factory, disk |-> d, writes |-> <<>>,
             notes |-> <<>>, last |-> last]

\* The textChanged handler (lines 269-284) run on text, with the session
\* state it reads.
textChanged(text, path, factory, last, d) ==
    LET curCount == countParagraphs(text)
        f == IF factory = "none" THEN factoryForExtension(suffixLower(path))
             ELSE factory
    IN IF curCount < last
       THEN [factory |-> factory, disk |-> d, writes |-> <<>>,
             notes |-> notifyDeleted(obs, last - curCount),
             last |-> curCount]
       ELSE IF curCount > last /\ path # EmptyPath
       THEN [factory |-> f,
             disk |-> DiskAfterSave(d, f, path, text),
             writes |-> <<SaveCall(f, path, text)>>,
             notes |-> notifySaved(obs, path),
             last |-> curCount]
       ELSE [factory |-> factory, disk |-> d, writes |-> <<>>,
             notes |-> <<>>, last |-> curCount]

HandlerRun(text, path, factory, last) ==
    [ran |-> TRUE, last |-> last, cur |-> countParagraphs(text),
     path |-> path, factory |-> factory]

Init ==
    /\ TextIdle
    /\ txt = <<>>
    /\ currentPath = EmptyPath
    /\ currentFactory = "none"
    /\ lastParagraphCount = countParagraphs(<<>>)
    /\ disk = InitialDisk
    /\ obs = SubjectAdd(<<>>, MsgObs)
    /\ regTime = <<>>
    /\ clock = 0
    /\ running = TRUE
    /\ loads = <<>>
    /\ writes = <<>>
    /\ notes = <<>>
    /\ event = [kind |-> "start", fname |-> EmptyPath, handler |-> NoHandler,
                warned |-> FALSE]

\* actOpen (lines 239-250), the dialog cancelled
ActOpenCancelled ==
    /\ running
    /\ clock < MaxEvents
    /\ clock' = clock + 1
    /\ event' = [kind |-> "OpenCancelled", fname |-> EmptyPath,
                 handler |-> NoHandler, warned |-> FALSE]
    /\ loads' = <<>>
    /\ writes' = <<>>
    /\ notes' = <<>>
    /\ UNCHANGED <<txt, currentPath, currentFactory, lastParagraphCount, disk,
                   running, obs, regTime, textVars>>

\* actOpen (lines 239-250), the dialog answering fname.  setPlainText emits
\* textChanged, so the textChanged handler runs inside line 247, before
\* currentPath and lastParagraphCount are assigned (lines 248-249).
ActOpen(fname) ==
    /\ running
    /\ clock < MaxEvents
    /\ clock' = clock + 1
    /\ LET factory == factoryForExtension(suffixLower(fname))
           content == LoaderResult(factory, disk[fname], fname \in Readable)
           h == textChanged(content, currentPath, factory, lastParagraphCount,
                            disk)
       IN /\ txt' = content
          /\ currentFactory' = h.factory
          /\ disk' = h.disk
          /\ currentPath' = fname
          /\ lastParagraphCount' = countParagraphs(content)
          /\ loads' = << [path |-> fname, loader |-> factory,
                           ok |-> fname \in Readable] >>
          /\ writes' = h.writes
          /\ notes' = h.notes
          /\ event' = [kind |-> "Open", fname |-> fname,
                       handler |-> HandlerRun(content, currentPath, factory,
                                              lastParagraphCount),
                       warned |-> FALSE]
    /\ UNCHANGED <<running, obs, regTime, textVars>>

\* actSave (lines 252-265); fname is the dialog's answer, asked for only
\* when currentPath is empty (EmptyPath: the dialog cancelled)
ActSave(fname) ==
    /\ running
    /\ clock < MaxEvents
    /\ clock' = clock + 1
    /\ (currentPath # EmptyPath => fname = EmptyPath)
    /\ IF currentPath = EmptyPath /\ fname = EmptyPath
       THEN /\ event' = [kind |-> "SaveCancelled", fname |-> EmptyPath,
                         handler |-> NoHandler, warned |-> FALSE]
            /\ writes' = <<>>
            /\ notes' = <<>>
            /\ UNCHANGED <<currentPath, currentFactory, disk>>
       ELSE LET path == IF currentPath = EmptyPath THEN fname ELSE currentPath
                f1 == IF currentPath = EmptyPath
                      THEN factoryForExtension(suffixLower(fname))
                      ELSE currentFactory
                f2 == IF f1 = "none"
                      THEN factoryForExtension(suffixLower(path)) ELSE f1
            IN /\ currentPath' = path
               /\ currentFactory' = f2
               /\ disk' = DiskAfterSave(disk, f2, path, txt)
               /\ writes' = <<SaveCall(f2, path, txt)>>
               /\ notes' = IF path \in Writable THEN notifySaved(obs, path)
                           ELSE <<>>
               /\ event' = [kind |-> "Save", fname |-> fname,
                            handler |-> NoHandler,
                            warned |-> path \notin Writable]
    /\ loads' = <<>>
    /\ UNCHANGED <<txt, lastParagraphCount, running, obs, regTime, textVars>>

\* the user edits the text to newText: QTextEdit emits textChanged
ActTextChanged(newText) ==
    /\ running
    /\ clock < MaxEvents
    /\ clock' = clock + 1
    /\ LET h == textChanged(newText, currentPath, currentFactory,
                            lastParagraphCount, disk)
       IN /\ txt' = newText
          /\ currentFactory' = h.factory
          /\ disk' = h.disk
          /\ lastParagraphCount' = h.last
          /\ writes' = h.writes
          /\ notes' = h.notes
          /\ event' = [kind |-> "TextChanged", fname |-> EmptyPath,
                       handler |-> HandlerRun(newText, currentPath,
                                              currentFactory,
                                              lastParagraphCount),
                       warned |-> FALSE]
    /\ loads' = <<>>
    /\ UNCHANGED <<currentPath, running, obs, regTime, textVars>>

\* actExit: QApplication::quit (line 267)
ActExit ==
    /\ running
    /\ running' = FALSE
    /\ event' = [kind |-> "Exit", fname |-> EmptyPath, handler |-> NoHandler,
                 warned |-> FALSE]
    /\ loads' = <<>>
    /\ writes' = <<>>
    /\ notes' = <<>>
    /\ UNCHANGED <<txt, currentPath, currentFactory, lastParagraphCount, disk,
                   obs, regTime, clock, textVars>>

Next ==
    \/ ActOpenCancelled
    \/ \E fname \in Paths : ActOpen(fname)
    \/ \E fname \in Paths \cup {EmptyPath} : ActSave(fname)
    \/ \E newText \in EditTexts : ActTextChanged(newText)
    \/ ActExit

Spec == Init /\ [][Next]_vars

-----------------------------------------------------------------------------
(* Claims about the session *)

AutoSavedNote(path) ==
    [observer |-> MsgObs, call |-> "onAutoSaved", arg |-> path]

\* C1: when the textChanged handler finds more paragraphs than the baseline
\* and currentPath is set, it calls the active factory's saver once with
\* currentPath and the current text (the file then holds that saver's output
\* when the call succeeds, and notifyAutoSaved(currentPath) is delivered);
\* with no currentPath nothing is saved and nothing is notified.
C1_GrowthAutoSaves ==
    (event.handler.ran /\ event.handler.cur > event.handler.last) =>
        IF event.handler.path # EmptyPath
        THEN /\ Len(writes) = 1
             /\ writes[1].path = event.handler.path
             /\ writes[1].text = txt
             /\ writes[1].saver = currentFactory
             /\ (event.handler.factory # "none"
                    => writes[1].saver = event.handler.factory)
             /\ (writes[1].ok =>
                    /\ disk[event.handler.path]
                          = SaverOutput(currentFactory, txt)
                    /\ notes = <<AutoSavedNote(event.handler.path)>>)
        ELSE writes = <<>> /\ notes = <<>> /\ disk = InitialDisk

\* an edit that adds a paragraph to an open, writable HTML file
C1_Witness ==
    /\ event.kind = "TextChanged"
    /\ event.handler.cur > event.handler.last
    /\ event.handler.path = HtmlPath
    /\ writes[1].ok
    /\ disk[HtmlPath] = HTMLSaverOutput(txt)
    /\ notes = <<AutoSavedNote(HtmlPath)>>

\* C2: when the textChanged handler finds fewer paragraphs than the baseline
\* it delivers notifyParagraphsDeleted once, with baseline - current >= 1,
\* and saves nothing; when the count is the baseline it does neither.
C2_ShrinkNotifies ==
    event.handler.ran =>
        /\ (event.handler.cur < event.handler.last =>
               /\ notes = << [observer |-> MsgObs,
                              call |-> "onParagraphsDeleted",
                              arg |-> event.handler.last - event.handler.cur] >>
               /\ notes[1].arg >= 1
               /\ writes = <<>>)
        /\ (event.handler.cur = event.handler.last =>
               notes = <<>> /\ writes = <<>>)

\* the text of two paragraphs cleared: notifyParagraphsDeleted(2)
C2_Witness ==
    /\ event.kind = "TextChanged"
    /\ event.handler.last = 2
    /\ txt = <<>>
    /\ Len(notes) = 1
    /\ notes[1].arg = 2

\* C3: after every event the baseline is countParagraphs of the text; after
\* an Open whose read failed the text is empty and the baseline is 0.
C3_BaselineIsCount ==
    /\ lastParagraphCount = countParagraphs(txt)
    /\ (event.kind = "Open" /\ ~loads[1].ok =>
            txt = <<>> /\ lastParagraphCount = 0)

\* a failed Open while a text with paragraphs was in the editor
C3_Witness ==
    /\ event.kind = "Open"
    /\ ~loads[1].ok
    /\ event.handler.last > 0
    /\ lastParagraphCount = 0

\* C4: a Save whose write fails warns, notifies nobody and leaves
\* currentPath, currentFactory, the text and the baseline as they were.
C4_FailedSaveChangesNothing ==
    [][(event'.kind = "Save" /\ ~writes'[1].ok) =>
          /\ event'.warned
          /\ notes' = <<>>
          /\ UNCHANGED <<currentPath, currentFactory, txt, lastParagraphCount>>
      ]_vars

\* the strategy the mapping gives a path: its suffix, compared without case
MappedStrategy(path) ==
    LET e == toLower(path.suffix)
    IN IF e \in {<<"h","t","m","l">>, <<"h","t","m">>} THEN "HTML"
       ELSE IF e = <<"b","i","n">> THEN "BIN"
       ELSE "TXT"

\* C5: every load and every save uses the loader or saver the mapping gives
\* the suffix of the path it works on.
C5_StrategyMatchesPath ==
    /\ \A i \in 1..Len(loads) : loads[i].loader = MappedStrategy(loads[i].path)
    /\ \A i \in 1..Len(writes) : writes[i].saver = MappedStrategy(writes[i].path)

\* C9: an Open saves nothing, notifies nobody and leaves every file on disk
\* as it was.
C9_OpenWritesNothing ==
    [][event'.kind = "Open" =>
          writes' = <<>> /\ notes' = <<>> /\ disk' = disk]_vars

\* C10: every notifyAutoSaved(path) delivered follows a save call on that
\* path that succeeded and wrote the current text.
C10_NotifiedOnlyAfterWrite ==
    \A i \in 1..Len(notes) :
        notes[i].call = "onAutoSaved" =>
            /\ Len(writes) = 1
            /\ writes[1].ok
            /\ writes[1].path = notes[i].arg
            /\ writes[1].text = txt
            /\ disk[notes[i].arg] = SaverOutput(writes[1].saver, txt)

====
